---- MODULE Spec2Model ----
(***************************************************************************)
(* The calculator of src/main.js: the five state variables, the display   *)
(* element, and the seven handlers that routeCalculatorAction dispatches   *)
(* to.  Strings are sequences of one-character strings, so that split,    *)
(* includes, slice, parseFloat and Number.prototype.toString are computed  *)
(* character by character as the code computes them.                       *)
(*                                                                         *)
(* Numbers.  A JavaScript number is modelled as an exact decimal with      *)
(* FracDigits fraction digits and magnitude at most MaxNumber: the record  *)
(* Num(n) stands for n / Scale.  A result that is not on this grid (too    *)
(* large, too many fraction digits, a quotient with no finite expansion)  *)
(* is the value Beyond, and a key press that would compute Beyond is not   *)
(* taken: the model covers the runs whose numbers stay on the grid.  The   *)
(* binary rounding of IEEE doubles, exponent notation (1e+21, 1e-7),       *)
(* Infinity and the sign of zero are therefore outside the model.          *)
(***************************************************************************)
EXTENDS Integers, Sequences, FiniteSets, TLC

\* ------------------------------------------------------------------ bounds
FracDigits == 1

MaxNumber == 999

\* buttons pressed in a session of Spec
MaxPresses == 5

\* buttons pressed in an entry of SpecEntry
MaxKeys == 7

\* buttons pressed in a session of SpecSession
MaxSession == 6

\* buttons pressed in SpecBackspace before Backspace is pressed again and again
MaxBefore == 4

\* greatest absolute value of an argument of operate in SpecOperate
MaxOperand == 5

\* calls of operate on the same arguments in SpecOperate
MaxCalls == 2

\* events of SpecTheme
MaxThemeEvents == 5

\* keys pressed in SpecKeyboard
MaxKeydowns == 4

\* digits of one operand in an entry of SpecEntry
MaxDigits == 2

RECURSIVE Pow10(_)
Pow10(k) == IF k = 0 THEN 1 ELSE 10 * Pow10(k - 1)

Scale == Pow10(FracDigits)

Abs(n) == IF n < 0 THEN -n ELSE n

\* ------------------------------------------------------- JavaScript values
Null == [t |-> "null", v |-> 0]

NaN == [t |-> "NaN", v |-> 0]

Num(n) == [t |-> "number", v |-> n]

\* the string "Error" as a value returned by divide
Error == [t |-> "string", v |-> 0]

\* a number off the modelled grid
Beyond == [t |-> "beyond", v |-> 0]

IsNum(x) == x.t = "number"

OnGrid(n) == Abs(n) <= MaxNumber * Scale

\* ----------------------------------------------------------------- strings
DigitChars == {"0", "1", "2", "3", "4", "5", "6", "7", "8", "9"}

DigitVal(c) ==
    CASE c = "0" -> 0 [] c = "1" -> 1 [] c = "2" -> 2 [] c = "3" -> 3
      [] c = "4" -> 4 [] c = "5" -> 5 [] c = "6" -> 6 [] c = "7" -> 7
      [] c = "8" -> 8 [] c = "9" -> 9

DigitChar(d) == <<"0", "1", "2", "3", "4", "5", "6", "7", "8", "9">>[d + 1]

\* the character class of the regular expression /[\+\-\×\÷]/
OperatorChars == {"+", "-", "×", "÷"}

\* the character class of the regular expression /[\+\-\×\÷=]/
OperatorOrEqualsChars == OperatorChars \cup {"="}

\* String.prototype.includes for a one-character needle
includes(str, c) == \E i \in 1..Len(str) : str[i] = c

\* position (1-based) of the first character of str that is in chars, 0 if none
FirstOf(str, chars) ==
    IF \E i \in 1..Len(str) : str[i] \in chars
    THEN CHOOSE i \in 1..Len(str) :
             /\ str[i] \in chars
             /\ \A j \in 1..(i - 1) : str[j] \notin chars
    ELSE 0

\* String.prototype.split on a one-character separator class
RECURSIVE split(_, _)
split(str, chars) ==
    LET i == FirstOf(str, chars)
    IN  IF i = 0 THEN <<str>>
        ELSE <<SubSeq(str, 1, i - 1)>> \o split(SubSeq(str, i + 1, Len(str)), chars)

\* a mutant of lastPart: parts[0]
lastPart_First(parts) == parts[1]

\* parts[parts.length - 1]
lastPart(parts) == parts[Len(parts)]

\* String.prototype.match(/[\+\-\×\÷]/): the first match, <<>> for null
match(str, chars) ==
    LET i == FirstOf(str, chars) IN IF i = 0 THEN <<>> ELSE <<str[i]>>

\* String.prototype.lastIndexOf for a one-character needle (0-based, -1 if none)
lastIndexOf(str, c) ==
    IF includes(str, c)
    THEN (CHOOSE i \in 1..Len(str) :
              /\ str[i] = c
              /\ \A j \in (i + 1)..Len(str) : str[j] # c) - 1
    ELSE -1

\* String.prototype.substring(0, end)
substring(str, end) == SubSeq(str, 1, end)

\* String.prototype.slice(0, -1)
sliceDropLast(str) == SubSeq(str, 1, Len(str) - 1)

\* ------------------------------------------------------------- parseFloat
\* length of the longest prefix of str made of digits
RECURSIVE DigitPrefixLen(_)
DigitPrefixLen(str) ==
    IF Len(str) > 0 /\ str[1] \in DigitChars
    THEN 1 + DigitPrefixLen(Tail(str))
    ELSE 0

\* value of a digit string, saturating just above MaxNumber
RECURSIVE DigitsValue(_, _)
DigitsValue(ds, acc) ==
    IF Len(ds) = 0 THEN acc
    ELSE IF acc > MaxNumber THEN acc
    ELSE DigitsValue(Tail(ds), 10 * acc + DigitVal(ds[1]))

\* a fraction digit string on the grid: the first FracDigits digits, padded
FracValue(fs) ==
    LET used == SubSeq(fs, 1, IF Len(fs) < FracDigits THEN Len(fs) ELSE FracDigits)
    IN  DigitsValue(used, 0) * Pow10(FracDigits - Len(used))

FracOnGrid(fs) == \A i \in (FracDigits + 1)..Len(fs) : fs[i] = "0"

\* parseFloat of an unsigned string: digits, optionally "." and digits
ParseUnsigned(str) ==
    LET il   == DigitPrefixLen(str)
        ints == SubSeq(str, 1, il)
        dot  == Len(str) > il /\ str[il + 1] = "."
        rest == IF dot THEN SubSeq(str, il + 2, Len(str)) ELSE <<>>
        fl   == DigitPrefixLen(rest)
        fs   == SubSeq(rest, 1, fl)
        iv   == DigitsValue(ints, 0)
    IN  IF il + fl = 0 THEN NaN
        ELSE IF iv > MaxNumber \/ ~FracOnGrid(fs) THEN Beyond
        ELSE IF ~OnGrid(iv * Scale + FracValue(fs)) THEN Beyond
        ELSE Num(iv * Scale + FracValue(fs))

\* parseFloat(string): an optional sign, then the longest decimal prefix;
\* NaN when there is no digit
parseFloat(str) ==
    IF Len(str) > 0 /\ str[1] = "-"
    THEN LET u == ParseUnsigned(Tail(str))
         IN  IF IsNum(u) THEN Num(-u.v) ELSE u
    ELSE IF Len(str) > 0 /\ str[1] = "+"
    THEN ParseUnsigned(Tail(str))
    ELSE ParseUnsigned(str)

\* -------------------------------------------- Number.prototype.toString
RECURSIVE NatToString(_)
NatToString(n) ==
    IF n < 10 THEN <<DigitChar(n)>>
    ELSE Append(NatToString(n \div 10), DigitChar(n % 10))

\* the FracDigits digits of f, zero padded on the left
RECURSIVE PadLeft(_, _)
PadLeft(str, k) == IF Len(str) >= k THEN str ELSE PadLeft(<<"0">> \o str, k)

RECURSIVE TrimZeros(_)
TrimZeros(str) ==
    IF Len(str) > 0 /\ str[Len(str)] = "0"
    THEN TrimZeros(sliceDropLast(str))
    ELSE str

NumberToString(n) ==
    LET a == Abs(n)
        f == a % Scale
    IN  (IF n < 0 THEN <<"-">> ELSE <<>>)
        \o NatToString(a \div Scale)
        \o (IF f = 0 THEN <<>>
            ELSE <<".">> \o TrimZeros(PadLeft(NatToString(f), FracDigits)))

\* the string conversion of `"" + value` for the values the code concatenates
toString(x) ==
    CASE x.t = "number" -> NumberToString(x.v)
      [] x.t = "NaN"    -> <<"N", "a", "N">>
      [] x.t = "string" -> <<"E", "r", "r", "o", "r">>
      [] x.t = "null"   -> <<"n", "u", "l", "l">>

\* parseFloat(value) of a non-string argument converts it to a string first
parseFloatOf(x) == parseFloat(toString(x))

\* ------------------------------------------------- basic math operations
\* a + b on grid numbers; NaN if either operand is NaN
add(a, b) ==
    IF ~IsNum(a) \/ ~IsNum(b) THEN NaN
    ELSE IF OnGrid(a.v + b.v) THEN Num(a.v + b.v) ELSE Beyond

\* a mutant of subtract: the operands are exchanged
subtract_Reversed(a, b) ==
    IF ~IsNum(a) \/ ~IsNum(b) THEN NaN
    ELSE IF OnGrid(b.v - a.v) THEN Num(b.v - a.v) ELSE Beyond

subtract(a, b) ==
    IF ~IsNum(a) \/ ~IsNum(b) THEN NaN
    ELSE IF OnGrid(a.v - b.v) THEN Num(a.v - b.v) ELSE Beyond

\* a * b: the exact product (a.v * b.v) / Scale, computed on the integer and
\* fraction parts so that no intermediate leaves the machine integers
multiply(a, b) ==
    IF ~IsNum(a) \/ ~IsNum(b) THEN NaN
    ELSE LET sgn == IF (a.v < 0) # (b.v < 0) THEN -1 ELSE 1
             i1  == Abs(a.v) \div Scale
             f1  == Abs(a.v) % Scale
             i2  == Abs(b.v) \div Scale
             f2  == Abs(b.v) % Scale
             p   == i1 * i2 * Scale + i1 * f2 + f1 * i2 + (f1 * f2) \div Scale
         IN  IF i1 * i2 > MaxNumber THEN Beyond
             ELSE IF (f1 * f2) % Scale # 0 \/ ~OnGrid(p) THEN Beyond
             ELSE Num(sgn * p)

\* a / b for b # 0: the exact quotient when it is on the grid
Quotient(a, b) ==
    IF ~IsNum(a) \/ ~IsNum(b) THEN NaN
    ELSE LET sgn == IF (a.v < 0) # (b.v < 0) THEN -1 ELSE 1
             q   == Abs(a.v) \div Abs(b.v)
             r   == Abs(a.v) % Abs(b.v)
             p   == q * Scale + (r * Scale) \div Abs(b.v)
         IN  IF q > MaxNumber THEN Beyond
             ELSE IF (r * Scale) % Abs(b.v) # 0 \/ ~OnGrid(p) THEN Beyond
             ELSE Num(sgn * p)

\* a mutant of divide: the zero test yields NaN, not the error marker
divide_NoMarker(a, b) ==
    IF b = Num(0) THEN NaN
    ELSE Quotient(a, b)

divide(a, b) ==
    IF b = Num(0) THEN Error
    ELSE Quotient(a, b)

\* the lookup table of operate and the call operations[operator](a, b)
operate(operator, a, b) ==
    CASE operator = "+" -> add(a, b)
      [] operator = "-" -> subtract(a, b)
      [] operator = "×" -> multiply(a, b)
      [] operator = "÷" -> divide(a, b)

\* -------------------------------------------------------------------- state
VARIABLES
    firstNumber,         \* Null, NaN or a number
    secondNumber,        \* Null, NaN or a number
    currentOperator,     \* NoOperator or one of OperatorChars
    shouldResetDisplay,  \* BOOLEAN
    currentEquation,     \* the equation string
    display,             \* textContent of the display element
    keys,                \* history: the values of the buttons routed so far
    userTheme,           \* localStorage item "userTheme": NoTheme, "light" or "dark"
    prefersDark,         \* matchMedia("(prefers-color-scheme: dark)").matches
    dataTheme,           \* attribute data-theme of the document element
    favicon,             \* href of the icon link: StaticFavicon or colours
    fetches              \* the isDark of each favicon fetch in flight, oldest first

calc == <<firstNumber, secondNumber, currentOperator, shouldResetDisplay,
          currentEquation>>

page == <<userTheme, prefersDark, dataTheme, favicon, fetches>>

vars == <<firstNumber, secondNumber, currentOperator, shouldResetDisplay,
          currentEquation, display, keys, userTheme, prefersDark, dataTheme,
          favicon, fetches>>

\* currentOperator = null
NoOperator == "null"

\* the display text the page is loaded with
InitialDisplay == <<"0">>

\* localStorage.getItem("userTheme") when no theme is stored
NoTheme == "null"

\* e.matches ? "dark" : "light"
themeOf(matches) == IF matches THEN "dark" ELSE "light"

getTheme ==
    IF userTheme # NoTheme THEN userTheme ELSE themeOf(prefersDark)

\* the icon the page is loaded with
StaticFavicon == "favicon.svg"

\* the fill of the g element and of the inserted rect
faviconColours(isDark) ==
    [g    |-> IF isDark THEN "#ffffff" ELSE "#000000",
     rect |-> IF isDark THEN "#1a1a1a" ELSE "#f0f0f0"]

\* updateFavicon up to the fetch: the request is in flight, its callback
\* holding isDark
updateFavicon(isDark) ==
    /\ fetches' = Append(fetches, isDark)
    /\ UNCHANGED favicon

\* the sequence without its element i
without(seq, i) == SubSeq(seq, 1, i - 1) \o SubSeq(seq, i + 1, Len(seq))

\* the callback of the fetch in flight at position i: favicon.href = dataUrl
faviconFetched(i) ==
    /\ favicon' = faviconColours(fetches[i])
    /\ fetches' = without(fetches, i)

setTheme(theme, isUserAction) ==
    /\ userTheme' = IF isUserAction THEN theme ELSE userTheme
    /\ dataTheme' = theme
    /\ updateFavicon(theme = "dark")

toggleTheme ==
    LET newTheme == IF dataTheme = "dark" THEN "light" ELSE "dark"
    IN  setTheme(newTheme, TRUE)

\* a mutant of followsSystem: the system is followed whatever is stored
followsSystem_Always == TRUE

\* the test of the listener of system theme changes
followsSystem == userTheme = NoTheme

\* the listener of the change event of the media query, the new value of the
\* query being matches
systemThemeChanged(matches) ==
    /\ prefersDark' = matches
    /\ IF followsSystem
       THEN setTheme(themeOf(matches), FALSE)
       ELSE UNCHANGED <<userTheme, dataTheme, favicon, fetches>>

\* the calculator after construction
InitCalculator ==
    /\ firstNumber = Null
    /\ secondNumber = Null
    /\ currentOperator = NoOperator
    /\ shouldResetDisplay = FALSE
    /\ currentEquation = <<>>
    /\ display = InitialDisplay

\* the page loaded on a light system with no theme stored
Init ==
    /\ InitCalculator
    /\ keys = <<>>
    /\ userTheme = NoTheme
    /\ prefersDark = FALSE
    /\ dataTheme = getTheme
    /\ favicon = StaticFavicon
    /\ fetches = <<getTheme = "dark">>

\* display.textContent = currentEquation || value
\* a mutant of updateDisplay: the equation is shown even when it is empty
updateDisplay_NoFallback(equation, value) == equation

updateDisplay(equation, value) == IF equation # <<>> THEN equation ELSE value

\* ----------------------------------------------------------------- handlers
\* a mutant of handleAllClear: the pending operator survives
handleAllClear_KeepsOperator ==
    /\ firstNumber' = Null
    /\ secondNumber' = Null
    /\ shouldResetDisplay' = FALSE
    /\ currentEquation' = <<>>
    /\ display' = updateDisplay(currentEquation', <<"0">>)
    /\ UNCHANGED currentOperator

handleAllClear ==
    /\ firstNumber' = Null
    /\ secondNumber' = Null
    /\ currentOperator' = NoOperator
    /\ shouldResetDisplay' = FALSE
    /\ currentEquation' = <<>>
    /\ display' = updateDisplay(currentEquation', <<"0">>)

\* a mutant of withoutCurrentNumber: the operator is cut off as well
withoutCurrentNumber_DropsOperator(equation, operator) ==
    substring(equation, lastIndexOf(equation, operator))

\* clearCalculator: currentEquation.substring(0,
\*     currentEquation.lastIndexOf(operatorMatch[0]) + 1)
withoutCurrentNumber(equation, operator) ==
    substring(equation, lastIndexOf(equation, operator) + 1)

\* a mutant of clearsEverything: only a finished equation is cleared completely
clearsEverything_OnlyAfterResult == includes(currentEquation, "=")

\* clearCalculator, the test of its first branch
clearsEverything == shouldResetDisplay \/ includes(currentEquation, "=")

clearCalculator ==
    IF clearsEverything
    THEN /\ firstNumber' = Null
         /\ secondNumber' = Null
         /\ currentOperator' = NoOperator
         /\ shouldResetDisplay' = FALSE
         /\ currentEquation' = <<>>
         /\ display' = updateDisplay(currentEquation', <<"0">>)
    ELSE LET parts == split(currentEquation, OperatorChars)
             operatorMatch == match(currentEquation, OperatorChars)
         IN  /\ IF Len(parts) > 1
                THEN IF operatorMatch # <<>>
                     THEN /\ currentEquation' =
                                withoutCurrentNumber(currentEquation, operatorMatch[1])
                          /\ shouldResetDisplay' = TRUE
                     ELSE UNCHANGED <<currentEquation, shouldResetDisplay>>
                ELSE /\ currentEquation' = <<>>
                     /\ UNCHANGED shouldResetDisplay
             /\ display' = updateDisplay(currentEquation',
                                         IF currentEquation' # <<>>
                                         THEN currentEquation' ELSE <<"0">>)
             /\ UNCHANGED <<firstNumber, secondNumber, currentOperator>>

\* a mutant of startsNewEquation: the digit after a result is appended to it
startsNewEquation_Never(equation) == FALSE

\* handleNumber, the start-fresh test: currentEquation.includes("=")
startsNewEquation(equation) == includes(equation, "=")

\* a mutant of replacesEquation: a lone "0" is kept in front of the digit
replacesEquation_NoZeroTest(equation) == includes(equation, "=")

\* handleNumber, the continue-building test:
\* currentEquation === "0" || currentEquation.includes("=")
replacesEquation(equation) == equation = <<"0">> \/ includes(equation, "=")

handleNumber(num) ==
    /\ IF shouldResetDisplay
       THEN /\ IF startsNewEquation(currentEquation)
               THEN currentEquation' = <<num>>
               ELSE currentEquation' = Append(currentEquation, num)
            /\ shouldResetDisplay' = FALSE
       ELSE /\ IF replacesEquation(currentEquation)
               THEN currentEquation' = <<num>>
               ELSE currentEquation' = Append(currentEquation, num)
            /\ UNCHANGED shouldResetDisplay
    /\ display' = updateDisplay(currentEquation', currentEquation')
    /\ UNCHANGED <<firstNumber, secondNumber, currentOperator>>

\* a mutant of resultPlusOp: the operator is appended to the equation as typed
resultPlusOp_KeepsEquation(result, op) == Append(currentEquation, op)

\* handleOperator, the intermediate calculation: currentEquation = result + op
resultPlusOp(result, op) == Append(toString(result), op)

\* a mutant of replaceLastOperator: the new operator is appended after the old
replaceLastOperator_Appends(equation, op) == Append(equation, op)

\* handleOperator, the substitution: currentEquation.slice(0, -1) + op
replaceLastOperator(equation, op) == Append(sliceDropLast(equation), op)

\* a mutant of resultNumber: the number is read after the last operator
resultNumber_AfterOperator(equation) ==
    parseFloat(lastPart(split(equation, OperatorChars)))

\* handleOperator: parseFloat(currentEquation.split("=")[1])
resultNumber(equation) == parseFloat(split(equation, {"="})[2])

handleOperator(op) ==
    LET hasEquals == includes(currentEquation, "=")
        currentNumber ==
            IF hasEquals
            THEN resultNumber(currentEquation)
            ELSE parseFloat(lastPart(split(currentEquation, OperatorChars)))
        \* currentEquation after the first if statement
        equation == IF hasEquals THEN toString(currentNumber) ELSE currentEquation
        result == operate(currentOperator, firstNumber, currentNumber)
    IN  /\ IF firstNumber = Null
           THEN /\ currentNumber # Beyond
                /\ firstNumber' = currentNumber
                /\ currentEquation' = Append(equation, op)
                /\ UNCHANGED secondNumber
           ELSE IF currentOperator # NoOperator /\ ~shouldResetDisplay
           THEN /\ currentNumber # Beyond
                /\ result # Beyond
                /\ secondNumber' = currentNumber
                /\ firstNumber' = parseFloatOf(result)
                /\ currentEquation' = resultPlusOp(result, op)
           ELSE /\ currentEquation' = replaceLastOperator(equation, op)
                /\ UNCHANGED <<firstNumber, secondNumber>>
        /\ currentOperator' = op
        /\ shouldResetDisplay' = TRUE
        /\ display' = updateDisplay(currentEquation', currentEquation')

\* a mutant of canCalculate: equals also acts directly after an operator or a result
canCalculate_IgnoresReset ==
    firstNumber # Null /\ currentOperator # NoOperator

\* handleEquals, its guard:
\* firstNumber !== null && currentOperator && !shouldResetDisplay
canCalculate ==
    firstNumber # Null /\ currentOperator # NoOperator /\ ~shouldResetDisplay

\* a mutant of equationWithResult: the result replaces the equation
equationWithResult_ResultOnly(equation, result) == toString(result)

\* handleEquals, the completed equation: currentEquation += "=" + result
equationWithResult(equation, result) == equation \o <<"=">> \o toString(result)

\* a mutant of handleEquals: the pending operator survives the calculation
handleEquals_KeepsOperator ==
    IF canCalculate
    THEN LET parts == split(currentEquation, OperatorChars)
             second == parseFloat(lastPart(parts))
             result == operate(currentOperator, firstNumber, second)
         IN  /\ second # Beyond
             /\ result # Beyond
             /\ currentEquation' = equationWithResult(currentEquation, result)
             /\ display' = updateDisplay(currentEquation', currentEquation')
             /\ firstNumber' = Null
             /\ secondNumber' = Null
             /\ shouldResetDisplay' = TRUE
             /\ UNCHANGED currentOperator
    ELSE UNCHANGED <<calc, display>>

handleEquals ==
    IF canCalculate
    THEN LET parts == split(currentEquation, OperatorChars)
             second == parseFloat(lastPart(parts))
             result == operate(currentOperator, firstNumber, second)
         IN  /\ second # Beyond
             /\ result # Beyond
             /\ currentEquation' = equationWithResult(currentEquation, result)
             /\ display' = updateDisplay(currentEquation', currentEquation')
             /\ firstNumber' = Null
             /\ secondNumber' = Null
             /\ currentOperator' = NoOperator
             /\ shouldResetDisplay' = TRUE
    ELSE UNCHANGED <<calc, display>>

\* a mutant of hasDecimalPoint: a second decimal point is accepted
hasDecimalPoint_Never(currentNumber) == FALSE

\* handleDecimal, the validation: currentNumber.includes(".")
hasDecimalPoint(currentNumber) == includes(currentNumber, ".")

handleDecimal ==
    LET parts == split(currentEquation, OperatorOrEqualsChars)
        currentNumber == lastPart(parts)
    IN  /\ IF shouldResetDisplay
           THEN /\ IF includes(currentEquation, "=")
                   THEN currentEquation' = <<"0", ".">>
                   ELSE currentEquation' = currentEquation \o <<"0", ".">>
                /\ shouldResetDisplay' = FALSE
           ELSE IF ~hasDecimalPoint(currentNumber)
           THEN /\ IF currentEquation = <<"0">> \/ includes(currentEquation, "=")
                   THEN currentEquation' = <<"0", ".">>
                   ELSE currentEquation' = Append(currentEquation, ".")
                /\ UNCHANGED shouldResetDisplay
           ELSE UNCHANGED <<currentEquation, shouldResetDisplay>>
        /\ display' = updateDisplay(currentEquation', currentEquation')
        /\ UNCHANGED <<firstNumber, secondNumber, currentOperator>>

\* a mutant of resultOf: the finished equation is kept whole
resultOf_WholeEquation(equation) == equation

\* handleBackspace: currentEquation.split("=")[1]
resultOf(equation) == split(equation, {"="})[2]

\* a mutant of withoutLastCharacter: the last character is removed as well
withoutLastCharacter_Empties(equation) ==
    IF Len(equation) > 0 THEN sliceDropLast(equation) ELSE equation

\* handleBackspace: the equation without its last character, "0" when there
\* is at most one character
withoutLastCharacter(equation) ==
    IF Len(equation) > 1 THEN sliceDropLast(equation) ELSE <<"0">>

\* a mutant of handleBackspace: the reset flag is cleared
handleBackspace_ClearsFlag ==
    /\ IF includes(currentEquation, "=")
       THEN currentEquation' = resultOf(currentEquation)
       ELSE currentEquation' = withoutLastCharacter(currentEquation)
    /\ display' = updateDisplay(currentEquation', currentEquation')
    /\ shouldResetDisplay' = FALSE
    /\ UNCHANGED <<firstNumber, secondNumber, currentOperator>>

handleBackspace ==
    /\ IF includes(currentEquation, "=")
       THEN currentEquation' = resultOf(currentEquation)
       ELSE currentEquation' = withoutLastCharacter(currentEquation)
    /\ display' = updateDisplay(currentEquation', currentEquation')
    /\ UNCHANGED <<firstNumber, secondNumber, currentOperator, shouldResetDisplay>>

\* ------------------------------------------------------------------ routing
\* CALCULATOR_BUTTONS, the single source of truth
CALCULATOR_BUTTONS == <<
    [value |-> "AC", type |-> "all-clear"],
    [value |-> "C", type |-> "clear"],
    [value |-> "←", type |-> "backspace"],
    [value |-> "÷", type |-> "operator"],
    [value |-> "7", type |-> "number"],
    [value |-> "8", type |-> "number"],
    [value |-> "9", type |-> "number"],
    [value |-> "×", type |-> "operator"],
    [value |-> "4", type |-> "number"],
    [value |-> "5", type |-> "number"],
    [value |-> "6", type |-> "number"],
    [value |-> "-", type |-> "operator"],
    [value |-> "1", type |-> "number"],
    [value |-> "2", type |-> "number"],
    [value |-> "3", type |-> "number"],
    [value |-> "+", type |-> "operator"],
    [value |-> "0", type |-> "zero"],
    [value |-> ".", type |-> "decimal"],
    [value |-> "=", type |-> "equals"] >>

\* the switch of routeCalculatorAction
routeCalculatorAction(value, type) ==
    \/ type \in {"number", "zero"} /\ handleNumber(value)
    \/ type = "operator" /\ handleOperator(value)
    \/ type = "equals" /\ handleEquals
    \/ type = "decimal" /\ handleDecimal
    \/ type = "all-clear" /\ handleAllClear
    \/ type = "clear" /\ clearCalculator
    \/ type = "backspace" /\ handleBackspace

\* the digit buttons the model presses
Digits == {"0", "1", "2", "7"}

Buttons ==
    {CALCULATOR_BUTTONS[i] : i \in 1..Len(CALCULATOR_BUTTONS)}

Pressable ==
    {b \in Buttons : b.type \in {"number", "zero"} => b.value \in Digits}

OfType(types) == {b \in Pressable : b.type \in types}

\* a click on a calculator button: the click listener of the button container
Click(b) ==
    /\ routeCalculatorAction(b.value, b.type)
    /\ keys' = Append(keys, b.value)
    /\ UNCHANGED page

\* ------------------------------------------------------------ specifications
\* Spec: every button, in any order, MaxPresses presses in all
CanPress == Len(keys) < MaxPresses

Number == \E b \in OfType({"number", "zero"}) : CanPress /\ Click(b)

Operator == \E b \in OfType({"operator"}) : CanPress /\ Click(b)

Equals == \E b \in OfType({"equals"}) : CanPress /\ Click(b)

Decimal == \E b \in OfType({"decimal"}) : CanPress /\ Click(b)

AllClear == \E b \in OfType({"all-clear"}) : CanPress /\ Click(b)

Clear == \E b \in OfType({"clear"}) : CanPress /\ Click(b)

Backspace == \E b \in OfType({"backspace"}) : CanPress /\ Click(b)

Next ==
    \/ Number
    \/ Operator
    \/ Equals
    \/ Decimal
    \/ AllClear
    \/ Clear
    \/ Backspace

Spec == Init /\ [][Next]_vars

\* SpecEntry: the entry of a calculation, MaxKeys keys in all: operands of at
\* most MaxDigits digits, and an operator or equals directly after a digit
Last(seq) == seq[Len(seq)]

\* number of digit keys at the end of ks
RECURSIVE DigitsAtEnd(_)
DigitsAtEnd(ks) ==
    IF ks # <<>> /\ Last(ks) \in Digits
    THEN 1 + DigitsAtEnd(SubSeq(ks, 1, Len(ks) - 1))
    ELSE 0

CanEnter == Len(keys) < MaxKeys

EnterNumber ==
    \E b \in OfType({"number", "zero"}) :
        CanEnter /\ DigitsAtEnd(keys) < MaxDigits /\ Click(b)

EnterOperator ==
    \E b \in OfType({"operator"}) :
        CanEnter /\ DigitsAtEnd(keys) > 0 /\ Click(b)

EnterEquals ==
    \E b \in OfType({"equals"}) :
        CanEnter /\ DigitsAtEnd(keys) > 0 /\ Click(b)

NextEntry ==
    \/ EnterNumber
    \/ EnterOperator
    \/ EnterEquals

SpecEntry == Init /\ [][NextEntry]_vars

\* SpecContinue: the entries of SpecEntry, and an operator directly after "="
\* or Clear directly after a digit
ContinueOperator ==
    \E b \in OfType({"operator"}) :
        CanEnter /\ keys # <<>> /\ Last(keys) = "=" /\ Click(b)

ClearEntry ==
    \E b \in OfType({"clear"}) :
        CanEnter /\ DigitsAtEnd(keys) > 0 /\ Click(b)

NextContinue ==
    \/ EnterNumber
    \/ EnterOperator
    \/ EnterEquals
    \/ ContinueOperator
    \/ ClearEntry

SpecContinue == Init /\ [][NextContinue]_vars

\* SpecSession: longer sessions on fewer buttons: MaxSession presses, in any
\* order, of the digits 1 and 2, the operators + and -, and the five other
\* buttons
SessionValues == {"1", "2", "+", "-", "=", ".", "AC", "C", "←"}

OfSession(types) == {b \in OfType(types) : b.value \in SessionValues}

CanContinue == Len(keys) < MaxSession

SessionNumber == \E b \in OfSession({"number", "zero"}) : CanContinue /\ Click(b)

SessionOperator == \E b \in OfSession({"operator"}) : CanContinue /\ Click(b)

SessionEquals == \E b \in OfSession({"equals"}) : CanContinue /\ Click(b)

SessionDecimal == \E b \in OfSession({"decimal"}) : CanContinue /\ Click(b)

SessionAllClear == \E b \in OfSession({"all-clear"}) : CanContinue /\ Click(b)

SessionClear == \E b \in OfSession({"clear"}) : CanContinue /\ Click(b)

SessionBackspace == \E b \in OfSession({"backspace"}) : CanContinue /\ Click(b)

NextSession ==
    \/ SessionNumber
    \/ SessionOperator
    \/ SessionEquals
    \/ SessionDecimal
    \/ SessionAllClear
    \/ SessionClear
    \/ SessionBackspace

SpecSession == Init /\ [][NextSession]_vars

\* SpecBackspace: at most MaxBefore presses of the session buttons, and then
\* Backspace pressed again and again. The key history records the repeated
\* Backspace once, as Again, however many times it is pressed. The fairness
\* condition states the user's part: Backspace keeps being pressed.
Again == "←*"

Repeating == keys # <<>> /\ Last(keys) = Again

CanPressBefore == ~Repeating /\ Len(keys) < MaxBefore

NumberBefore == \E b \in OfSession({"number", "zero"}) : CanPressBefore /\ Click(b)

OperatorBefore == \E b \in OfSession({"operator"}) : CanPressBefore /\ Click(b)

EqualsBefore == \E b \in OfSession({"equals"}) : CanPressBefore /\ Click(b)

DecimalBefore == \E b \in OfSession({"decimal"}) : CanPressBefore /\ Click(b)

AllClearBefore == \E b \in OfSession({"all-clear"}) : CanPressBefore /\ Click(b)

ClearBefore == \E b \in OfSession({"clear"}) : CanPressBefore /\ Click(b)

BackspaceBefore == \E b \in OfSession({"backspace"}) : CanPressBefore /\ Click(b)

RepeatBackspace ==
    \E b \in OfSession({"backspace"}) :
        /\ routeCalculatorAction(b.value, b.type)
        /\ keys' = IF Repeating THEN keys ELSE Append(keys, Again)
        /\ UNCHANGED page

NextBackspace ==
    \/ NumberBefore
    \/ OperatorBefore
    \/ EqualsBefore
    \/ DecimalBefore
    \/ AllClearBefore
    \/ ClearBefore
    \/ BackspaceBefore
    \/ RepeatBackspace

SpecBackspace == Init /\ [][NextBackspace]_vars /\ WF_vars(RepeatBackspace)

\* SpecOperate: the function operate on its own. The registers hold the
\* arguments, integers of absolute value at most MaxOperand and any of the
\* four operators; a call shows the text of the value operate returns.
Integer(i) == Num(i * Scale)

InitOperate ==
    /\ firstNumber \in {Integer(i) : i \in -MaxOperand..MaxOperand}
    /\ secondNumber \in {Integer(i) : i \in -MaxOperand..MaxOperand}
    /\ currentOperator \in OperatorChars
    /\ shouldResetDisplay = FALSE
    /\ currentEquation = <<>>
    /\ display = InitialDisplay
    /\ keys = <<>>
    /\ userTheme = NoTheme
    /\ prefersDark = FALSE
    /\ dataTheme = getTheme
    /\ favicon = StaticFavicon
    /\ fetches = <<getTheme = "dark">>

Operate ==
    LET result == operate(currentOperator, firstNumber, secondNumber)
    IN  /\ Len(keys) < MaxCalls
        /\ result # Beyond
        /\ currentEquation' = toString(result)
        /\ display' = updateDisplay(currentEquation', currentEquation')
        /\ keys' = Append(keys, "operate")
        /\ UNCHANGED <<firstNumber, secondNumber, currentOperator, shouldResetDisplay>>
        /\ UNCHANGED page

NextOperate == Operate

SpecOperate == InitOperate /\ [][NextOperate]_vars

\* SpecKeyboard: MaxKeydowns keys pressed on the keyboard, each one of Keys
\* a mutant of KEYBOARD_MAP: the lower-case c is not mapped
KEYBOARD_MAP_NoLowerC ==
    [key \in {"*", "/", "Enter", "Escape", "Delete", "C", "Backspace",
              "NumpadDivide", "NumpadMultiply", "NumpadSubtract", "NumpadAdd",
              "NumpadEnter", "NumpadDecimal"} |->
        CASE key \in {"*", "NumpadMultiply"} -> "×"
          [] key \in {"/", "NumpadDivide"} -> "÷"
          [] key \in {"Enter", "NumpadEnter"} -> "="
          [] key = "Escape" -> "AC"
          [] key \in {"Delete", "C"} -> "C"
          [] key = "Backspace" -> "←"
          [] key = "NumpadSubtract" -> "-"
          [] key = "NumpadAdd" -> "+"
          [] key = "NumpadDecimal" -> "."]

KEYBOARD_MAP ==
    [key \in {"*", "/", "Enter", "Escape", "Delete", "c", "C", "Backspace",
              "NumpadDivide", "NumpadMultiply", "NumpadSubtract", "NumpadAdd",
              "NumpadEnter", "NumpadDecimal"} |->
        CASE key \in {"*", "NumpadMultiply"} -> "×"
          [] key \in {"/", "NumpadDivide"} -> "÷"
          [] key \in {"Enter", "NumpadEnter"} -> "="
          [] key = "Escape" -> "AC"
          [] key \in {"Delete", "c", "C"} -> "C"
          [] key = "Backspace" -> "←"
          [] key = "NumpadSubtract" -> "-"
          [] key = "NumpadAdd" -> "+"
          [] key = "NumpadDecimal" -> "."]

\* the keys "Numpad" + digit: startsWith("Numpad"), length 7, last character
\* a number; and key.slice(-1) of each
NumpadDigit ==
    [key \in {"Numpad0", "Numpad1", "Numpad2", "Numpad3", "Numpad4",
              "Numpad5", "Numpad6", "Numpad7", "Numpad8", "Numpad9"} |->
        CASE key = "Numpad0" -> "0" [] key = "Numpad1" -> "1"
          [] key = "Numpad2" -> "2" [] key = "Numpad3" -> "3"
          [] key = "Numpad4" -> "4" [] key = "Numpad5" -> "5"
          [] key = "Numpad6" -> "6" [] key = "Numpad7" -> "7"
          [] key = "Numpad8" -> "8" [] key = "Numpad9" -> "9"]

\* the values of e.key pressed: every documented key of KEYBOARD_MAP and two
\* of its numpad keys, keys that are button values, a numpad digit, and two
\* keys that are no button
Keys ==
    {"*", "/", "Enter", "Escape", "Delete", "c", "C", "Backspace",
     "NumpadAdd", "NumpadDecimal",
     "1", "2", "+", "-", ".", "Numpad1", "a", "Shift"}

\* the keydown listener
keydown(key) ==
    LET mapped == IF key \in DOMAIN KEYBOARD_MAP THEN KEYBOARD_MAP[key] ELSE key
        buttonValue == IF key \in DOMAIN NumpadDigit THEN NumpadDigit[key] ELSE mapped
        buttonConfig == {btn \in Buttons : btn.value = buttonValue}
    IN  IF buttonConfig # {} /\ \A btn \in buttonConfig : btn.type # "spacer"
        THEN \E btn \in buttonConfig : routeCalculatorAction(btn.value, btn.type)
        ELSE UNCHANGED <<calc, display>>

Keydown ==
    \E key \in Keys :
        /\ Len(keys) < MaxKeydowns
        /\ keydown(key)
        /\ keys' = Append(keys, key)
        /\ UNCHANGED page

NextKeyboard == Keydown

SpecKeyboard == Init /\ [][NextKeyboard]_vars

\* SpecTheme: the page loaded with any stored theme on any system, and then
\* MaxThemeEvents events: clicks on the theme toggle, changes of the system
\* colour scheme, and loads of the page; the favicon fetches they start
\* complete in between, in any order. A load replaces the document: the icon
\* link is the static one again and the callbacks of the old document are gone.
InitTheme ==
    /\ InitCalculator
    /\ keys = <<>>
    /\ userTheme \in {NoTheme, "light", "dark"}
    /\ prefersDark \in BOOLEAN
    /\ dataTheme = getTheme
    /\ favicon = StaticFavicon
    /\ fetches = <<getTheme = "dark">>

CanChangeTheme == Len(keys) < MaxThemeEvents

ToggleClick ==
    /\ CanChangeTheme
    /\ toggleTheme
    /\ keys' = Append(keys, "theme-toggle")
    /\ UNCHANGED <<calc, display, prefersDark>>

SystemChange ==
    /\ CanChangeTheme
    /\ systemThemeChanged(~prefersDark)
    /\ keys' = Append(keys, "change")
    /\ UNCHANGED <<calc, display>>

Load ==
    /\ CanChangeTheme
    /\ firstNumber' = Null
    /\ secondNumber' = Null
    /\ currentOperator' = NoOperator
    /\ shouldResetDisplay' = FALSE
    /\ currentEquation' = <<>>
    /\ display' = InitialDisplay
    /\ dataTheme' = getTheme
    /\ favicon' = StaticFavicon
    /\ fetches' = <<getTheme = "dark">>
    /\ keys' = Append(keys, "load")
    /\ UNCHANGED <<userTheme, prefersDark>>

\* a favicon fetch in flight completes; the fetches complete in any order
FaviconFetched ==
    \E i \in 1..Len(fetches) :
        /\ faviconFetched(i)
        /\ UNCHANGED <<calc, display, keys, userTheme, prefersDark, dataTheme>>

NextTheme ==
    \/ ToggleClick
    \/ SystemChange
    \/ Load
    \/ FaviconFetched

SpecTheme == InitTheme /\ [][NextTheme]_vars

\* ------------------------------------------------- reading the key history
AllDigits(ks) == ks # <<>> /\ \A i \in 1..Len(ks) : ks[i] \in DigitChars

\* the number a digit sequence denotes
OperandValue(ds) == Num(DigitsValue(ds, 0) * Scale)

NoLeadingZero(ds) == Len(ds) = 1 \/ ds[1] # "0"

EndsWith(str, suffix) ==
    /\ Len(str) >= Len(suffix)
    /\ SubSeq(str, Len(str) - Len(suffix) + 1, Len(str)) = suffix

\* the keys before a final "="
Body == IF keys # <<>> /\ Last(keys) = "=" THEN sliceDropLast(keys) ELSE keys

\* the operands typed, in order
Operands == split(Body, OperatorChars)

\* the operator typed after the n-th operand
RECURSIVE OperatorAfter(_)
OperatorAfter(n) ==
    IF n = 1 THEN Body[Len(Operands[1]) + 1]
    ELSE LET start == CHOOSE i \in 1..Len(Body) :
                          /\ Body[i] = OperatorAfter(n - 1)
                          /\ Cardinality({j \in 1..i : Body[j] \in OperatorChars}) = n - 1
         IN  Body[start + Len(Operands[n]) + 1]

ZeroDivision(op, b) == op = "÷" /\ b = Num(0)

\* keys = a, op1, b, op2, c, "=" with digit sequences a, b, c
ChainEntered ==
    /\ keys # <<>> /\ Last(keys) = "="
    /\ Len(Operands) = 3
    /\ \A i \in 1..3 : AllDigits(Operands[i])

\* keys = a, op1, b, op2 with digit sequences a, b
SecondOperatorEntered ==
    /\ keys # <<>> /\ Last(keys) \in OperatorChars
    /\ Len(Operands) = 3
    /\ AllDigits(Operands[1]) /\ AllDigits(Operands[2])

\* the text after the equals marker
ResultText == split(currentEquation, {"="})[2]

\* ------------------------------------------------------------------- claims
\* C1: from the initial state, the keys a, op1, b, op2, c, = with digit
\* sequences a, b, c and no division by zero produce the result
\* operate(op2, operate(op1, a, b), c): left to right, no precedence.
ChainLaw ==
    ChainEntered =>
        LET a == OperandValue(Operands[1])
            b == OperandValue(Operands[2])
            c == OperandValue(Operands[3])
            op1 == OperatorAfter(1)
            op2 == OperatorAfter(2)
        IN  (~ZeroDivision(op1, b) /\ ~ZeroDivision(op2, c)) =>
                /\ includes(currentEquation, "=")
                /\ ResultText = toString(operate(op2, operate(op1, a, b), c))

\* 1 + 2 × 7 = gives 21, not the 15 that precedence would give
ChainLawWitness ==
    /\ keys = <<"1", "+", "2", "×", "7", "=">>
    /\ ResultText = <<"2", "1">>

\* C2: after the keys a, op1, b, op2 from the initial state the equation is
\* the text of operate(op1, a, b) followed by op2, firstNumber is that
\* intermediate result, currentOperator is op2 and shouldResetDisplay is set.
IntermediateResult ==
    SecondOperatorEntered =>
        LET a == OperandValue(Operands[1])
            b == OperandValue(Operands[2])
            r == operate(OperatorAfter(1), a, b)
        IN  /\ currentEquation = Append(toString(r), Last(keys))
            /\ firstNumber = r
            /\ currentOperator = Last(keys)
            /\ shouldResetDisplay

ProgressiveDisplay ==
    LET n == Len(Operands)
        typing == /\ keys # <<>> /\ Last(keys) # "="
                  /\ n <= 2
                  /\ AllDigits(Operands[1]) /\ NoLeadingZero(Operands[1])
                  /\ n = 2 /\ Operands[2] # <<>> =>
                         AllDigits(Operands[2]) /\ NoLeadingZero(Operands[2])
        done ==   /\ keys # <<>> /\ Last(keys) = "="
                  /\ n = 2
                  /\ \A i \in 1..2 : AllDigits(Operands[i]) /\ NoLeadingZero(Operands[i])
                  /\ ~ZeroDivision(OperatorAfter(1), OperandValue(Operands[2]))
    IN  /\ typing => currentEquation = keys /\ display = keys
        /\ done =>
               LET r == operate(OperatorAfter(1), OperandValue(Operands[1]),
                                OperandValue(Operands[2]))
               IN  /\ currentEquation = keys \o toString(r)
                   /\ display = currentEquation

ProgressiveDisplayWitness ==
    /\ keys = <<"2", "1", "+", "7", "=">>
    /\ display = <<"2", "1", "+", "7", "=", "2", "8">>

\* C5: for every first operand a, the keys a, ÷, 0, = from the initial
\* state leave an equation ending in "=Error", with firstNumber, secondNumber
\* and currentOperator null and shouldResetDisplay set.
DivisionByZeroAtEquals ==
    (/\ Len(keys) >= 4
     /\ AllDigits(SubSeq(keys, 1, Len(keys) - 3))
     /\ SubSeq(keys, Len(keys) - 2, Len(keys)) = <<"÷", "0", "=">>) =>
        /\ EndsWith(currentEquation, <<"=", "E", "r", "r", "o", "r">>)
        /\ firstNumber = Null
        /\ secondNumber = Null
        /\ currentOperator = NoOperator
        /\ shouldResetDisplay

DivisionByZeroAtEqualsWitness ==
    /\ keys = <<"1", "0", "÷", "0", "=">>
    /\ currentEquation = <<"1", "0", "÷", "0", "=", "E", "r", "r", "o", "r">>
    /\ firstNumber = Null

\* the step routes the button with this value
Pressed(value) == keys' = Append(keys, value)

\* C6: after an Equals whose evaluation produced the error marker (the
\* equation ends in "=Error"), the next digit d replaces the whole equation:
\* it becomes exactly d.
DigitReplacesError ==
    [][\A d \in Digits :
          (/\ keys # <<>> /\ Last(keys) = "="
           /\ EndsWith(currentEquation, <<"=", "E", "r", "r", "o", "r">>)
           /\ Pressed(d)) =>
              /\ currentEquation' = <<d>>
              /\ display' = <<d>>]_vars

DigitReplacesErrorWitness ==
    /\ keys = <<"1", "÷", "0", "=", "7">>
    /\ currentEquation = <<"7">>

\* C7: Equals is a no-op unless firstNumber is non-null, an operator is
\* pending and shouldResetDisplay is false: in every other reachable state
\* "=" leaves the equation, both operands, the operator and the flag as they
\* are; a second "=" right after a successful one changes nothing.
EqualsNoOp ==
    [][(/\ Pressed("=")
        /\ ~(firstNumber # Null /\ currentOperator # NoOperator
             /\ ~shouldResetDisplay)) =>
           UNCHANGED <<calc, display>>]_vars

EqualsNoOpWitness ==
    /\ keys = <<"1", "+", "2", "=", "=">>
    /\ currentEquation = <<"1", "+", "2", "=", "3">>
    /\ shouldResetDisplay

\* C8: in every reachable state each operand segment of the equation (the
\* text between operators, the equals marker and the ends) holds at most one
\* decimal point.
OneDecimalPointPerSegment ==
    LET segments == split(currentEquation, OperatorOrEqualsChars)
    IN  \A i \in 1..Len(segments) :
            Cardinality({j \in 1..Len(segments[i]) : segments[i][j] = "."}) <= 1

\* C9: the second of two consecutive Decimal presses leaves the equation and
\* all registers unchanged, in every reachable state; d1, ., d2, ., d3 gives
\* "d1.d2d3" as 1, 2, ., 3, ., 4 gives "12.34".
SecondDecimalIgnored ==
    [][/\ (keys # <<>> /\ Last(keys) = "." /\ Pressed(".")) =>
              UNCHANGED <<calc, display>>
       /\ \A d1, d2, d3 \in Digits :
              (d1 # "0" /\ keys' = <<d1, ".", d2, ".", d3>>) =>
                  currentEquation' = <<d1, ".", d2, d3>>]_vars

SecondDecimalIgnoredWitness ==
    /\ keys = <<"1", ".", "2", ".", "7">>
    /\ currentEquation = <<"1", ".", "2", "7">>

\* the keys pressed after the last all-clear
RECURSIVE SinceAllClear(_)
SinceAllClear(ks) ==
    IF ks = <<>> \/ Last(ks) = "AC" THEN <<>>
    ELSE Append(SinceAllClear(sliceDropLast(ks)), Last(ks))

\* C10: for every sequence of digit presses starting from all-clear, the
\* displayed segment is never a "0" followed by another digit: 0 then 7
\* shows "7", and 0 pressed again and again stays "0".
NoLeadingZeroShown ==
    AllDigits(SinceAllClear(keys)) =>
        /\ display = currentEquation
        /\ AllDigits(display)
        /\ ~(Len(display) > 1 /\ display[1] = "0")

NoLeadingZeroShownWitness ==
    /\ keys = <<"AC", "0", "0", "7", "2">>
    /\ display = <<"7", "2">>

\* C11: operator substitution: the keys a, op1, op2 from the initial state
\* give the equation "a op2", leave firstNumber equal to a with nothing
\* evaluated (secondNumber still null) and make op2 the pending operator, so
\* that a, op1, op2, b, = evaluates operate(op2, a, b).
OperatorSubstitution ==
    LET n == Len(Operands[1])
        a == OperandValue(Operands[1])
        substituted ==
            /\ Len(keys) >= n + 2
            /\ AllDigits(Operands[1])
            /\ keys[n + 1] \in OperatorChars
            /\ keys[n + 2] \in OperatorChars
        b == SubSeq(keys, n + 3, Len(keys) - 1)
    IN  /\ (substituted /\ Len(keys) = n + 2) =>
               /\ currentEquation = Append(toString(a), keys[n + 2])
               /\ firstNumber = a
               /\ secondNumber = Null
               /\ currentOperator = keys[n + 2]
        /\ (substituted /\ Len(keys) > n + 3 /\ Last(keys) = "=" /\ AllDigits(b)) =>
               /\ includes(currentEquation, "=")
               /\ ResultText = toString(operate(keys[n + 2], a, OperandValue(b)))

\* 2, +, ×, 7, = gives 14
OperatorSubstitutionWitness ==
    /\ keys = <<"2", "+", "×", "7", "=">>
    /\ currentEquation = <<"2", "×", "7", "=", "1", "4">>

\* the state after construction, display included
Initialized ==
    /\ firstNumber = Null
    /\ secondNumber = Null
    /\ currentOperator = NoOperator
    /\ shouldResetDisplay = FALSE
    /\ currentEquation = <<>>
    /\ display = <<"0">>

\* C12: AllClear, pressed in any reachable state, returns the calculator to
\* exactly the state after construction: empty equation shown as "0", both
\* numbers and the operator null, the reset flag false.
AllClearInitializes == [][Pressed("AC") => Initialized']_vars

\* AllClear after an operator was stored
AllClearInitializesWitness ==
    /\ keys = <<"7", "+", "2", "-", "AC">>
    /\ Initialized

\* C13: Clear, pressed when the reset flag is set or the equation contains
\* "=", has exactly the effect of AllClear.
ClearAsAllClear ==
    [][(Pressed("C") /\ (shouldResetDisplay \/ includes(currentEquation, "=")))
           => Initialized']_vars

\* Clear directly after an operator, the reset flag set and no "=" shown
ClearAsAllClearWitness ==
    /\ keys = <<"7", "+", "2", "-", "C">>
    /\ Initialized

\* the positions of str that hold a character of chars
PositionsOf(str, chars) == {i \in 1..Len(str) : str[i] \in chars}

\* the greatest element of a non-empty set of numbers
Greatest(S) == CHOOSE i \in S : \A j \in S : j <= i

\* C14: Clear, pressed with the reset flag false and an equation that has no
\* "=" and contains an operator, cuts the equation back to and including its
\* last operator character, so that only the operand being typed is lost
\* ("-2+4" becomes "-2+"), and sets the reset flag.
ClearKeepsLastOperator ==
    [][(/\ Pressed("C")
        /\ ~shouldResetDisplay
        /\ ~includes(currentEquation, "=")
        /\ PositionsOf(currentEquation, OperatorChars) # {})
           => /\ currentEquation' =
                     SubSeq(currentEquation, 1,
                            Greatest(PositionsOf(currentEquation, OperatorChars)))
              /\ shouldResetDisplay']_vars

\* C15: Backspace on an equation that contains "=" leaves exactly the text of
\* the result ("5+3=8" becomes "8"), and Backspace on an equation of one
\* character leaves "0".
BackspaceCollapsesToResult ==
    [][Pressed("←") =>
           /\ includes(currentEquation, "=") => currentEquation' = ResultText
           /\ (~includes(currentEquation, "=") /\ Len(currentEquation) = 1) =>
                  currentEquation' = <<"0">>]_vars

\* "1+2=3" became "3" at the first Backspace and "0" at the second
BackspaceCollapsesToResultWitness ==
    /\ keys = <<"1", "+", "2", "=", "←", "←">>
    /\ currentEquation = <<"0">>

\* a step of SpecBackspace that is a press of Backspace
BackspaceStep ==
    \/ Pressed("←")
    \/ Pressed(Again)
    \/ Repeating /\ UNCHANGED keys

\* C16: Backspace never leaves an empty equation, and Backspace pressed again
\* and again leads from every reachable equation to exactly "0", where
\* further presses of Backspace leave it.
BackspaceEndsAtZero ==
    /\ [][BackspaceStep => currentEquation' # <<>>]_vars
    /\ Repeating ~> [](currentEquation = <<"0">>)

\* Backspace was repeated on the finished equation "1+2=3" down to "0"
BackspaceEndsAtZeroWitness ==
    /\ keys = <<"1", "+", "2", "=", Again>>
    /\ currentEquation = <<"0">>

\* number of "=" characters in str
EqualsSigns(str) == Cardinality(PositionsOf(str, {"="}))

\* C17: the equation never holds more than one "=", and a digit d pressed on
\* an equation that contains "=" makes the equation exactly d, with
\* firstNumber and the pending operator null.
DigitAfterResult ==
    [][/\ EqualsSigns(currentEquation') <= 1
       /\ \A d \in Digits :
              (Pressed(d) /\ includes(currentEquation, "=")) =>
                  /\ currentEquation' = <<d>>
                  /\ firstNumber' = Null
                  /\ currentOperator' = NoOperator]_vars

\* 7 pressed on the finished equation "1+2=3"
DigitAfterResultWitness ==
    /\ keys = <<"1", "+", "2", "=", "7">>
    /\ currentEquation = <<"7">>
    /\ firstNumber = Null

\* C18: after every handled button the display text is not empty and is in
\* step with the equation: the equation when it is not empty, "0" when it is.
DisplayInSync ==
    [][/\ display' # <<>>
       /\ display' = IF currentEquation' # <<>> THEN currentEquation' ELSE <<"0">>]_vars

\* Clear emptied the equation "2" and the display shows "0"
DisplayInSyncWitness ==
    /\ keys = <<"1", "+", "2", "AC", "2", "C">>
    /\ currentEquation = <<>>
    /\ display = <<"0">>

\* what the claim says operate returns for the integers a and b: the
\* arithmetic of the integers, and for a division the number whose product
\* with b is a, or the marker when b is 0
Returns(result, operator, a, b) ==
    CASE operator = "+" -> result = Integer(a + b)
      [] operator = "-" -> result = Integer(a - b)
      [] operator = "×" -> result = Integer(a * b)
      [] operator = "÷" -> IF b = 0 THEN result = Error
                           ELSE IsNum(result) /\ result.v * b = a * Scale

TypedOperand == parseFloat(lastPart(split(currentEquation, OperatorChars)))

\* C20: whenever an operand submitted to an evaluation is not a number (the
\* error marker of an earlier division by zero, taken as first operand by the
\* operator that followed it), the result shown is "Error", never NaN.
ErrorMarkerAsOperand ==
    [][(/\ Pressed("=")
        /\ canCalculate
        /\ (firstNumber = NaN \/ TypedOperand = NaN))
           => /\ includes(currentEquation', "=")
              /\ split(currentEquation', {"="})[2] = <<"E", "r", "r", "o", "r">>]_vars

\* C21: the user's choice overrides the system preference: once a theme is
\* stored it stays stored and no change of the system colour scheme changes
\* the active theme; while none is stored the active theme is the system's,
\* on load and after every system change.
UserThemeOverrides ==
    /\ [](userTheme = NoTheme => dataTheme = themeOf(prefersDark))
    /\ [][/\ Pressed("theme-toggle") => userTheme' # NoTheme
          /\ userTheme # NoTheme => userTheme' # NoTheme
          /\ (Pressed("change") /\ userTheme # NoTheme) =>
                 /\ prefersDark' # prefersDark
                 /\ dataTheme' = dataTheme]_vars

\* the user chose light on a dark system, and the system went light and dark
\* again
UserThemeOverridesWitness ==
    /\ keys = <<"theme-toggle", "change", "change">>
    /\ userTheme = "light"
    /\ prefersDark
    /\ dataTheme = "light"

\* the button the documentation gives for a key: the digits and + - . for
\* themselves, * for ×, / for ÷, Enter for =, Escape for AC, Delete, c and C
\* for Clear, Backspace for ←
DocumentedKeys ==
    DigitChars \cup {"+", "-", "*", "/", "Enter", "Escape", "Delete", "c", "C",
                     "Backspace", "."}

DocumentedValue(key) ==
    CASE key = "*" -> "×"
      [] key = "/" -> "÷"
      [] key = "Enter" -> "="
      [] key = "Escape" -> "AC"
      [] key \in {"Delete", "c", "C"} -> "C"
      [] key = "Backspace" -> "←"
      [] OTHER -> key

DocumentedButton(key) == CHOOSE b \in Buttons : b.value = DocumentedValue(key)

SuccessfulEquals ==
    [][(/\ Pressed("=")
        /\ firstNumber # Null
        /\ currentOperator # NoOperator
        /\ ~shouldResetDisplay)
           => /\ currentEquation' =
                     currentEquation \o <<"=">>
                         \o toString(operate(currentOperator, firstNumber, TypedOperand))
              /\ firstNumber' = Null
              /\ secondNumber' = Null
              /\ currentOperator' = NoOperator
              /\ shouldResetDisplay'
              /\ display' = currentEquation']_vars

\* 7 + 2 = shows "7+2=9" with the registers cleared
SuccessfulEqualsWitness ==
    /\ keys = <<"7", "+", "2", "=">>
    /\ currentEquation = <<"7", "+", "2", "=", "9">>
    /\ firstNumber = Null
    /\ secondNumber = Null
    /\ currentOperator = NoOperator
    /\ shouldResetDisplay

\* the operand being typed, as text: what follows the last operator or "="
Segment == lastPart(split(currentEquation, OperatorOrEqualsChars))

\* C24: a digit d pressed when the operand being typed is exactly "0"
\* replaces that "0" by d instead of being written after it, for every
\* operand, the second one included ("5+0" followed by 5 gives "5+5").
DigitReplacesZeroSegment ==
    [][\A d \in Digits :
           (/\ Pressed(d)
            /\ ~shouldResetDisplay
            /\ ~includes(currentEquation, "=")
            /\ Segment = <<"0">>)
               => currentEquation' = Append(sliceDropLast(currentEquation), d)]_vars

\* C25: a digit d pressed while the reset flag is set starts a new operand
\* that is d alone and clears the flag: the equation becomes exactly d, or
\* the previous equation, which ended in an operator, followed by d; d is
\* never written after digits already in the equation.
DigitStartsOperand ==
    [][\A d \in Digits :
           (Pressed(d) /\ shouldResetDisplay) =>
               /\ ~shouldResetDisplay'
               /\ \/ currentEquation' = <<d>>
                  \/ /\ currentEquation # <<>>
                     /\ Last(currentEquation) \in OperatorChars
                     /\ currentEquation' = Append(currentEquation, d)]_vars

\* C26: Decimal pressed while the reset flag is set starts a new operand that
\* is exactly "0." and clears the flag: the operand being typed is "0."
\* afterwards, the equation being the previous one followed by "0." after an
\* operator and "0." after a result.
DecimalStartsOperand ==
    [][(Pressed(".") /\ shouldResetDisplay) =>
           /\ ~shouldResetDisplay'
           /\ lastPart(split(currentEquation', OperatorOrEqualsChars)) = <<"0", ".">>
           /\ currentEquation' =
                  IF includes(currentEquation, "=") THEN <<"0", ".">>
                  ELSE currentEquation \o <<"0", ".">>]_vars

\* C27: Decimal as the first key of an operand, the very first key pressed
\* in the initial state included, makes the operand "0.", so that . and then
\* 5 shows "0.5" and not ".5".
DecimalFirst ==
    [][(/\ Pressed(".")
        /\ \/ currentEquation = <<>>
           \/ Last(currentEquation) \in OperatorChars)
           => lastPart(split(currentEquation', OperatorOrEqualsChars)) = <<"0", ".">>]_vars

\* C28: when a chained operator evaluates a division by zero (keys a, ÷, 0,
\* op), the error is propagated as at Equals: the equation shows the error
\* marker, the reset flag is set, and the next digit d replaces the marker
\* entirely: the equation becomes exactly d.
ChainedDivisionByZero ==
    [][(/\ SecondOperatorEntered
        /\ ZeroDivision(OperatorAfter(1), OperandValue(Operands[2])))
           => /\ Len(currentEquation) >= 5
              /\ SubSeq(currentEquation, 1, 5) = <<"E", "r", "r", "o", "r">>
              /\ shouldResetDisplay
              /\ \A d \in Digits : Pressed(d) => currentEquation' = <<d>>]_vars

\* position of the first "=" in the key history, 0 when there is none
FirstEquals ==
    IF PositionsOf(keys, {"="}) = {} THEN 0
    ELSE CHOOSE i \in PositionsOf(keys, {"="}) :
             \A j \in PositionsOf(keys, {"="}) : i <= j

\* C29: an operator op2 pressed directly after a successful Equals with a
\* numeric result r continues from the result: the equation becomes the text
\* of r followed by op2, firstNumber becomes r and op2 is pending, so that
\* a, op1, b, =, op2, c, = evaluates operate(op2, operate(op1, a, b), c).
ContinueFromResult ==
    LET first == split(SubSeq(keys, 1, FirstEquals - 1), OperatorChars)
        rest == SubSeq(keys, FirstEquals + 1, Len(keys))
        r == operate(keys[Len(first[1]) + 1],
                     OperandValue(first[1]), OperandValue(first[2]))
        c == SubSeq(rest, 2, Len(rest) - 1)
    IN  (/\ FirstEquals > 0
         /\ Len(first) = 2
         /\ AllDigits(first[1])
         /\ AllDigits(first[2])
         /\ IsNum(r)
         /\ rest # <<>>
         /\ rest[1] \in OperatorChars)
            => /\ Len(rest) = 1 =>
                      /\ currentEquation = Append(toString(r), rest[1])
                      /\ firstNumber = r
                      /\ currentOperator = rest[1]
               /\ (Len(rest) > 2 /\ Last(rest) = "=" /\ AllDigits(c)) =>
                      /\ includes(currentEquation, "=")
                      /\ ResultText = toString(operate(rest[1], r, OperandValue(c)))

\* 1 + 2 = × 7 = shows "3×7=21"
ContinueFromResultWitness ==
    /\ keys = <<"1", "+", "2", "=", "×", "7", "=">>
    /\ currentEquation = <<"3", "×", "7", "=", "2", "1">>

\* C30: entry clear keeps the operation: the keys a, op, b, Clear, c, = from
\* the initial state evaluate operate(op, a, c); the Clear leaves firstNumber
\* and the pending operator as they were and removes only b.
ClearKeepsOperation ==
    LET at == CHOOSE i \in PositionsOf(keys, {"C"}) : TRUE
        first == split(SubSeq(keys, 1, at - 1), OperatorChars)
        a == OperandValue(first[1])
        op == keys[Len(first[1]) + 1]
        rest == SubSeq(keys, at + 1, Len(keys))
        c == sliceDropLast(rest)
    IN  (/\ Cardinality(PositionsOf(keys, {"C"})) = 1
         /\ Len(first) = 2
         /\ AllDigits(first[1])
         /\ AllDigits(first[2]))
            => /\ rest = <<>> =>
                      /\ currentEquation = Append(toString(a), op)
                      /\ firstNumber = a
                      /\ currentOperator = op
               /\ (Len(rest) > 1 /\ Last(rest) = "=" /\ AllDigits(c)) =>
                      /\ includes(currentEquation, "=")
                      /\ ResultText = toString(operate(op, a, OperandValue(c)))

\* 7 × 2 Clear 1 0 = shows "7×10=70"
ClearKeepsOperationWitness ==
    /\ keys = <<"7", "×", "2", "C", "1", "0", "=">>
    /\ currentEquation = <<"7", "×", "1", "0", "=", "7", "0">>

\* C31: Backspace corrects the display only: in every reachable state it
\* leaves firstNumber, secondNumber, the pending operator and the reset flag
\* as they were.
BackspaceChangesEquationOnly ==
    [][Pressed("←") =>
           UNCHANGED <<firstNumber, secondNumber, currentOperator,
                       shouldResetDisplay>>]_vars

\* Backspace removed the operator of "7+": the registers still hold 7 and +,
\* and the reset flag is still set
BackspaceChangesEquationOnlyWitness ==
    /\ keys = <<"7", "+", "←">>
    /\ currentEquation = <<"7">>
    /\ firstNumber = Integer(7)
    /\ currentOperator = "+"
    /\ shouldResetDisplay

\* C32: a false reset flag together with a pending operator means a second
\* operand has been entered: whenever firstNumber is not null, an operator is
\* pending and the reset flag is false, what follows the last operator
\* character of the equation is a non-empty operand.
SecondOperandEntered ==
    (firstNumber # Null /\ currentOperator # NoOperator /\ ~shouldResetDisplay)
        => lastPart(split(currentEquation, OperatorChars)) # <<>>

\* C33: whenever an operator would take the substitution branch, the
\* character it replaces is an operator: in every reachable state with
\* firstNumber not null and the reset flag true, the equation ends in an
\* operator.
SubstitutionReplacesOperator ==
    (firstNumber # Null /\ shouldResetDisplay)
        => /\ currentEquation # <<>>
           /\ Last(currentEquation) \in OperatorChars

\* C34: in every reachable state firstNumber is null if and only if no
\* operator is pending.
OperandIffOperator == (firstNumber = Null) <=> (currentOperator = NoOperator)

\* both were set by +, reset by = and set again by -
OperandIffOperatorWitness ==
    /\ keys = <<"7", "+", "2", "=", "-">>
    /\ firstNumber = Integer(9)
    /\ currentOperator = "-"

\* the text of a number: an optional minus sign, then digits with at most
\* one decimal point, read by parseFloat as a number
IsNumeral(str) ==
    LET unsigned == IF str # <<>> /\ str[1] = "-" THEN Tail(str) ELSE str
    IN  /\ unsigned # <<>>
        /\ \A i \in 1..Len(unsigned) : unsigned[i] \in DigitChars \cup {"."}
        /\ Cardinality(PositionsOf(unsigned, {"."})) <= 1
        /\ IsNum(parseFloat(str))

\* the text before the equals marker
EquationText == split(currentEquation, {"="})[1]

\* C35: the completed equation shown is arithmetically true: whenever the
\* equation contains "=", the text before it has the form X op Y with
\* numbers X and Y, and the text after it is the text of operate(op, X, Y).
EquationIsTrue ==
    includes(currentEquation, "=") =>
        \E i \in 2..(Len(EquationText) - 1) :
            LET X == SubSeq(EquationText, 1, i - 1)
                Y == SubSeq(EquationText, i + 1, Len(EquationText))
            IN  /\ EquationText[i] \in OperatorChars
                /\ IsNumeral(X)
                /\ IsNumeral(Y)
                /\ ResultText =
                       toString(operate(EquationText[i], parseFloat(X), parseFloat(Y)))

\* str contains the text part
Contains(str, part) ==
    \E i \in 1..(Len(str) - Len(part) + 1) :
        SubSeq(str, i, i + Len(part) - 1) = part

\* C36: no reachable state shows the not-a-number value: for every sequence
\* of button presses from the initial state, an operator pressed first on the
\* empty equation included, the equation never contains "NaN" and firstNumber
\* is never NaN.
NeverNaN ==
    /\ ~Contains(currentEquation, <<"N", "a", "N">>)
    /\ firstNumber # NaN

\* C37: continue-from-result keeps the value: for every numeric result r,
\* positive, zero or negative, of the keys a, op1, b, =, Backspace and then
\* an operator set firstNumber to r, as the operator pressed directly after
\* the Equals does.
BackspaceKeepsResult ==
    LET n == Len(keys)
        first == split(SubSeq(keys, 1, n - 3), OperatorChars)
        r == operate(keys[Len(first[1]) + 1],
                     OperandValue(first[1]), OperandValue(first[2]))
    IN  (/\ n >= 6
         /\ keys[n] \in OperatorChars
         /\ keys[n - 1] = "←"
         /\ keys[n - 2] = "="
         /\ Len(first) = 2
         /\ AllDigits(first[1])
         /\ AllDigits(first[2])
         /\ IsNum(r))
            => firstNumber = r

\* C38: no stale operand or operator survives an emptied equation: in every
\* reachable state where the equation is empty, firstNumber, secondNumber and
\* the pending operator are null and the reset flag is false.
EmptyEquationIsInitial ==
    currentEquation = <<>> =>
        /\ firstNumber = Null
        /\ secondNumber = Null
        /\ currentOperator = NoOperator
        /\ ~shouldResetDisplay

\* C39: the favicon follows the theme under any interleaving: for every
\* order in which the callbacks of the pending favicon fetches complete, once
\* all of them have completed the favicon colours are those of the active
\* theme.
FaviconFollowsTheme ==
    fetches = <<>> => favicon = faviconColours(dataTheme = "dark")

====
